---- MODULE Spec2Model ----
(***************************************************************************)
(* Model of the frame-sampling strategy planner of movie_file_analyzer     *)
(* (src/src/core/context_optimizer.py, class ContextOptimizer) and of the  *)
(* callers that hold and validate a strategy.                              *)
(*                                                                         *)
(* Numbers.  The source computes with Python floats.  A duration is        *)
(* modelled in fixed point, as a whole number of 1/DurScale seconds, and   *)
(* every quotient is kept as an exact fraction.  For durations on this     *)
(* grid the float results are the exact ones: duration * (1/3) is          *)
(* correctly rounded and lies at least 1/(3*DurScale) from an integer      *)
(* unless it is one, and duration / recommended_images lies at least       *)
(* 1/(DurScale*200) from every midpoint of two nice intervals unless it    *)
(* is one, so int() and min() decide as exact arithmetic does.             *)
(*                                                                         *)
(* Optional values (Python None) are modelled as sets: None is {} and a    *)
(* present value v is {v}.                                                 *)
(***************************************************************************)
EXTENDS Integers, Sequences, FiniteSets, TLC

\* ---------------------------------------------------------------- bounds

\* units per second of the fixed-point duration grid (2: half seconds)
DurScale == 2

\* longest video considered, in seconds
MaxDurationSec == 6100

\* hand-built strategies take the frame counts within this distance of 0
\* and of each provider limit
HandBuiltSpread == 1

\* estimate_tokens is called with the frame counts -MaxFrameCount ..
\* MaxFrameCount
MaxFrameCount == 120

\* number of threads that call the planner concurrently
NumThreads == 2

\* ------------------------------------------------------------- constants

None == {}

Some(v) == {v}

Val(o) == CHOOSE v \in o : TRUE

AIProvider == {"claude", "gemini"}

PROVIDER_LIMITS_swapped ==
    [p \in AIProvider |->
        IF p = "claude"
        THEN [max_images |-> 80, recommended_images |-> 100,
              max_image_size_mb |-> 5, tokens_per_image |-> 1500]
        ELSE [max_images |-> 3600, recommended_images |-> 200,
              max_image_size_mb |-> 100, tokens_per_image |-> 258]]

\* the class attribute ContextOptimizer.PROVIDER_LIMITS as the class body
\* sets it
PROVIDER_LIMITS ==
    [p \in AIProvider |->
        IF p = "claude"
        THEN [max_images |-> 100, recommended_images |-> 80,
              max_image_size_mb |-> 5, tokens_per_image |-> 1500]
        ELSE [max_images |-> 3600, recommended_images |-> 200,
              max_image_size_mb |-> 100, tokens_per_image |-> 258]]

NICE_INTERVALS == <<1, 2, 3, 5, 10, 15, 20, 30, 60>>

\* average_iframes_per_second = 1 / 3, as the fraction RateNum / RateDen
RateNum == 1

RateDen == 3

\* write_video_metadata: characters of analysis_result kept in the summary
SummaryLimit == 250

\* --------------------------------------------------------------- helpers

Abs(x) == IF x < 0 THEN -x ELSE x

Min2(a, b) == IF a < b THEN a ELSE b

Max2(a, b) == IF a > b THEN a ELSE b

\* -------------------------------------------------------- pure functions

\* ContextOptimizer.PROVIDER_LIMITS: a class-level dict of ProviderLimits
\* objects (a dataclass that is not frozen), shared by every instance and
\* read by the operations at call time
VARIABLE provider_limits

\* int(): truncation toward zero of the fraction num / den, den > 0
IntTrunc(num, den) ==
    IF num >= 0 THEN num \div den ELSE -((-num) \div den)

\* round(): the integer nearest to num / den (num >= 0, den > 0)
IntRound(num, den) == (2 * num + den) \div (2 * den)

estimate_iframes_rounded(duration) ==
    IntRound(duration * RateNum, DurScale * RateDen)

estimate_iframes_at_least_one(duration) ==
    Max2(1, IntTrunc(duration * RateNum, DurScale * RateDen))

\* estimate_iframes: int(duration_sec * self.avg_iframes_per_sec).
\* duration is in 1/DurScale seconds.
estimate_iframes(duration) ==
    IntTrunc(duration * RateNum, DurScale * RateDen)

round_to_nice_interval_last_min(num, den) ==
    LET key(i) == Abs(NICE_INTERVALS[i] * den - num)
        idx == CHOOSE i \in 1..Len(NICE_INTERVALS) :
                   /\ \A j \in 1..Len(NICE_INTERVALS) : key(i) <= key(j)
                   /\ \A j \in (i + 1)..Len(NICE_INTERVALS) : key(j) > key(i)
    IN  NICE_INTERVALS[idx]

round_to_nice_interval_plain_round(num, den) == IntRound(num, den)

\* _round_to_nice_interval: min(NICE_INTERVALS, key=|x - interval|), the
\* first element of the list with the least key.  interval = num / den.
round_to_nice_interval(num, den) ==
    LET key(i) == Abs(NICE_INTERVALS[i] * den - num)
        idx == CHOOSE i \in 1..Len(NICE_INTERVALS) :
                   /\ \A j \in 1..Len(NICE_INTERVALS) : key(i) <= key(j)
                   /\ \A j \in 1..(i - 1) : key(j) > key(i)
    IN  NICE_INTERVALS[idx]

resolve_iframes_falsy(duration, known_iframes) ==
    IF known_iframes = None \/ known_iframes = Some(0)
    THEN estimate_iframes(duration)
    ELSE Val(known_iframes)

\* if estimated_iframes is None:
\*     estimated_iframes = self.estimate_iframes(duration_sec)
resolve_iframes(duration, known_iframes) ==
    IF known_iframes = None
    THEN estimate_iframes(duration)
    ELSE Val(known_iframes)

within_limit_strict(iframes, max_frames) == iframes < max_frames

\* if estimated_iframes <= max_frames:
within_limit(iframes, max_frames) == iframes <= max_frames

\* ideal_interval = max(1.0, min(60.0, duration_sec / max_frames)), as the
\* numerator of a fraction with denominator den = max_frames * DurScale
clamp_ideal_interval(duration, den) ==
    Max2(1 * den, Min2(60 * den, duration))

interval_frames_rounded(duration, interval) ==
    IntRound(duration, interval * DurScale)

\* estimated = int(duration_sec / interval)
interval_frames(duration, interval) ==
    IntTrunc(duration, interval * DurScale)

\* calculate_strategy(duration_sec, provider, estimated_iframes=None)
calculate_strategy(duration, provider, known_iframes) ==
    LET limits == provider_limits[provider]
        max_frames == limits.recommended_images
        iframes == resolve_iframes(duration, known_iframes)
        den == max_frames * DurScale
        ideal_num == clamp_ideal_interval(duration, den)
        interval == round_to_nice_interval(ideal_num, den)
        estimated == interval_frames(duration, interval)
    IN  IF within_limit(iframes, max_frames)
        THEN [mode |-> "all_iframes", interval |-> None,
              estimated_frames |-> iframes,
              description |-> <<"all_iframes", iframes>>]
        ELSE [mode |-> "interval", interval |-> Some(interval),
              estimated_frames |-> estimated,
              description |-> <<"interval", interval, estimated>>]

FixedPreset_no_interval(name, duration, seconds) ==
    LET estimated == IntTrunc(duration, seconds * DurScale)
    IN  [name |-> name,
         strategy |-> [mode |-> "interval", interval |-> None,
                       estimated_frames |-> estimated,
                       description |-> <<"interval", seconds, estimated>>]]

FixedPreset_rounded(name, duration, seconds) ==
    LET estimated == IntRound(duration, seconds * DurScale)
    IN  [name |-> name,
         strategy |-> [mode |-> "interval", interval |-> Some(seconds),
                       estimated_frames |-> estimated,
                       description |-> <<"interval", seconds, estimated>>]]

\* one fixed-interval entry of get_preset_strategies
FixedPreset(name, duration, seconds) ==
    LET estimated == IntTrunc(duration, seconds * DurScale)
    IN  [name |-> name,
         strategy |-> [mode |-> "interval", interval |-> Some(seconds),
                       estimated_frames |-> estimated,
                       description |-> <<"interval", seconds, estimated>>]]

preset_offered_strict(duration, min_seconds) ==
    duration > min_seconds * DurScale

preset_offered_one_frame(duration, min_seconds) ==
    2 * duration >= min_seconds * DurScale

\* if duration_sec >= 4: / >= 10: / >= 20:
preset_offered(duration, min_seconds) ==
    duration >= min_seconds * DurScale

auto_strategy_gemini(duration, provider) ==
    calculate_strategy(duration, "gemini", None)

\* auto_strategy = self.calculate_strategy(duration_sec, provider)
auto_strategy(duration, provider) ==
    calculate_strategy(duration, provider, None)

insert_auto_first(menu, auto) == <<[name |-> "auto", strategy |-> auto]>> \o menu

\* strategies["auto"] = auto_strategy: a new key goes last in the dict
insert_auto(menu, auto) == menu \o <<[name |-> "auto", strategy |-> auto]>>

\* get_preset_strategies: the dict, in insertion order, as a sequence of
\* [name, strategy] entries.
get_preset_strategies(duration, provider) ==
    LET detailed == IF preset_offered(duration, 4)
                    THEN <<FixedPreset("detailed_2s", duration, 2)>>
                    ELSE <<>>
        standard == IF preset_offered(duration, 10)
                    THEN <<FixedPreset("standard_5s", duration, 5)>>
                    ELSE <<>>
        brief == IF preset_offered(duration, 20)
                 THEN <<FixedPreset("brief_10s", duration, 10)>>
                 ELSE <<>>
        estimated_iframes == estimate_iframes(duration)
        limits == provider_limits[provider]
        all == IF estimated_iframes <= limits.max_images
               THEN <<[name |-> "all_iframes",
                       strategy |->
                           [mode |-> "all_iframes", interval |-> None,
                            estimated_frames |-> estimated_iframes,
                            description |->
                                <<"all_iframes", estimated_iframes>>]]>>
               ELSE <<>>
    IN  insert_auto(detailed \o standard \o brief \o all,
                    auto_strategy(duration, provider))

validate_strategy_inclusive(strategy, provider) ==
    LET limits == provider_limits[provider]
    IN  IF strategy.estimated_frames >= limits.max_images
        THEN [ok |-> FALSE,
              message |-> <<"exceeds_max", strategy.estimated_frames,
                            limits.max_images>>]
        ELSE IF strategy.estimated_frames >= limits.recommended_images
        THEN [ok |-> TRUE,
              message |-> <<"exceeds_recommended", strategy.estimated_frames,
                            limits.recommended_images>>]
        ELSE [ok |-> TRUE, message |-> <<"normal_range">>]

\* validate_strategy(strategy, provider) -> (bool, message); the message is
\* kept as its kind and the numbers it formats.
validate_strategy(strategy, provider) ==
    LET limits == provider_limits[provider]
    IN  IF strategy.estimated_frames > limits.max_images
        THEN [ok |-> FALSE,
              message |-> <<"exceeds_max", strategy.estimated_frames,
                            limits.max_images>>]
        ELSE IF strategy.estimated_frames > limits.recommended_images
        THEN [ok |-> TRUE,
              message |-> <<"exceeds_recommended", strategy.estimated_frames,
                            limits.recommended_images>>]
        ELSE [ok |-> TRUE, message |-> <<"normal_range">>]

estimate_tokens_with_prompt(frame_count, provider) ==
    frame_count * provider_limits[provider].tokens_per_image + 1000

\* estimate_tokens: frame_count * limits.tokens_per_image
estimate_tokens(frame_count, provider) ==
    frame_count * provider_limits[provider].tokens_per_image

\* FrameExtractor.extract_frames: the -vf filter it builds,
\*     if interval is not None and interval > 0:  fps=1/{interval}
\*     else:                                      select='eq(pict_type,I)'
\* interval is an optional number of seconds
extract_frames_filter(interval) ==
    IF interval # None /\ Val(interval) > 0 THEN "fps" ELSE "select_iframes"

\* AIConnector.build_prompt: the interval description,
\*     if interval_sec is not None: "{n}s interval"  else: "by I-Frame"
build_prompt_interval_desc(interval) ==
    IF interval # None THEN "interval" ELSE "iframe"

\* the names of the parameters of calculate_strategy that have no default
calculate_strategy_required == <<"duration_sec", "provider">>

\* a call of calculate_strategy with the positional arguments args, as
\* Python binds it: fewer arguments than required parameters raise
\* TypeError before the body runs
call_calculate_strategy(args) ==
    IF Len(args) < Len(calculate_strategy_required)
    THEN [raised |-> "TypeError"]
    ELSE [raised |-> "none",
          value |-> calculate_strategy(args[1], args[2],
                                       IF Len(args) >= 3 THEN args[3] ELSE None)]

\* the fields of the dataclass ExtractionStrategy
ExtractionStrategyFields ==
    {"mode", "interval", "estimated_frames", "description"}

\* ----------------------------------------------------------------- state

VARIABLES
    pc,                \* position of the calling code
    duration_sec,      \* argument: duration, in 1/DurScale s (None before a call)
    provider_arg,      \* argument: the provider (None before a call)
    estimated_iframes_arg, \* estimated_iframes argument: {} when not supplied, {n} when supplied
    iframes_result,    \* return value of estimate_iframes, as an optional
    current_strategy,  \* the strategy the caller holds, as an optional
    strategy_origin,   \* how the caller obtained current_strategy
    strategies,        \* return value of get_preset_strategies
    validation         \* return value of validate_strategy, as an optional

\* a caller of estimate_tokens
VARIABLES
    frame_count_arg,   \* argument frame_count, as an optional
    tokens_result,     \* return value of estimate_tokens(frame_count, provider)
    tokens_doubled     \* return value of estimate_tokens(2 * frame_count, provider)

tokenVars == <<frame_count_arg, tokens_result, tokens_doubled>>

plannerVars == <<pc, duration_sec, provider_arg, estimated_iframes_arg,
                 iframes_result, current_strategy, strategy_origin,
                 strategies, validation, tokenVars>>

\* threads that call the operations of one shared ContextOptimizer
VARIABLES
    t_pc,      \* per thread: "idle", "running" (inside a call), "returned"
    t_call,    \* per thread: the operation and arguments of its call
    t_result,  \* per thread: the value its call returned
    seen       \* history: per call, the value the first such call returned

threadVars == <<t_pc, t_call, t_result, seen>>

\* the GUI and its analysis worker, with strategies as objects on a heap
VARIABLES
    objects,          \* heap: object id -> fields of a live ExtractionStrategy
    video_duration,   \* MainWindow.video_info.duration, as an optional
    gui_strategy,     \* MainWindow.current_strategy: optional object id
    worker_pc,        \* AnalysisWorker: "none", "started", "extracted",
                      \* "prompted", "finished"
    worker_strategy,  \* AnalysisWorker.strategy: optional object id
    worker_interval,  \* the interval the worker last read from its strategy
    gui_validation    \* result of a validate_strategy call on the GUI's strategy

objectVars == <<objects, video_duration, gui_strategy, worker_pc,
                worker_strategy, worker_interval, gui_validation>>

\* the command-line analysis (analyze_video / analyze_command)
VARIABLES
    cli_pc,            \* position in analyze_video
    cli_args,          \* the arguments of the call, as an optional record
    cli_duration,      \* video_info.duration in seconds, as an optional
    cli_interval,      \* the local variable interval (None or seconds)
    cli_cache_exists,  \* the frame cache directory of the video exists
    cli_cache_created, \* create_cache_dir has run in this call
    cli_filter,        \* the filter extract_frames built, "" before it ran
    cli_result,        \* the result dict: success and error
    cli_failed_at      \* the step that ended the call early, "" if none

cliVars == <<cli_pc, cli_args, cli_duration, cli_interval, cli_cache_exists,
             cli_cache_created, cli_filter, cli_result, cli_failed_at>>

\* the main window (MainWindow) as the handlers of the event loop see it
VARIABLES
    mw_video_path,       \* self.video_path (with self.video_info), optional
    mw_strategy,         \* self.current_strategy, as an optional
    mw_analyze_enabled,  \* settings_panel.analyze_btn is enabled
    mw_browse_enabled,   \* file_panel.browse_btn is enabled
    mw_youtube_enabled,  \* the YouTube url field and button are enabled
    mw_timer_active,     \* self.elapsed_timer is running
    mw_message,          \* the message box the last handler showed, "" if
                         \* it showed none
    mw_last_finish,      \* what _on_analysis_finished saved and cleaned for
                         \* the current worker, as an optional
    mw_queue,            \* signals of the workers queued for the event loop
    mw_validated         \* history: the strategies for which the window has
                         \* called validate_strategy and shown its message

mwVars == <<mw_video_path, mw_strategy, mw_analyze_enabled, mw_browse_enabled,
            mw_youtube_enabled, mw_timer_active, mw_message, mw_last_finish,
            mw_queue, mw_validated>>

\* the analysis worker self.worker (AnalysisWorker, a QThread)
VARIABLES
    aw_pc,          \* "none" before the first worker, then its position in
                    \* run(), "emitted" after the last emit, "exited"
    aw_video_path,  \* AnalysisWorker.video_path, as an optional
    aw_strategy,    \* AnalysisWorker.strategy, as an optional
    aw_filter,      \* the filter extract_frames built in this run, or ""
    aw_prompt,      \* the interval description build_prompt wrote, or ""
    aw_emitted      \* the signals this run has emitted, in order

awVars == <<aw_pc, aw_video_path, aw_strategy, aw_filter, aw_prompt,
            aw_emitted>>

\* the download worker self.download_worker (DownloadWorker, a QThread)
VARIABLE dw_pc      \* "none", "running", "emitted", "exited"

guiVars == <<mwVars, awVars, dw_pc>>

\* one call of MetadataStore.write_video_metadata and the two files it touches
VARIABLES
    wm_pc,          \* position in write_video_metadata: "idle", "called",
                    \* "prepared", "ran_ok", "unlinked", "replaced",
                    \* "cleanup", "returned"
    wm_args,        \* the arguments and the environment of the call, as an
                    \* optional
    wm_original,    \* the file at video_path: "" (none), "original", "tagged"
    wm_temp,        \* the file at temp_path: "" (none), "stale", "partial",
                    \* "tagged"
    wm_summary_len, \* len(summary), as an optional
    wm_return       \* the returned tuple, or the one about to be returned

metaVars == <<wm_pc, wm_args, wm_original, wm_temp, wm_summary_len,
              wm_return>>

\* state of the command line, the window and the metadata writer
otherVars == <<cliVars, guiVars, metaVars>>

\* state of the other specifications, which the planner calls leave alone
nonPlannerVars == <<threadVars, objectVars, otherVars>>

vars == <<provider_limits, plannerVars, nonPlannerVars>>

\* frame counts passed to estimate_tokens
FrameCounts == (-MaxFrameCount)..MaxFrameCount

Durations == 0..(MaxDurationSec * DurScale)

\* keyframe counts a caller may have measured: none, the boundary of the
\* mode decision, and one past it
KnownIframes(provider) ==
    {None, Some(0),
     Some(PROVIDER_LIMITS[provider].recommended_images),
     Some(PROVIDER_LIMITS[provider].recommended_images + 1)}

\* frame counts of hand-built strategies: around 0 and around both limits
HandBuiltFrames(provider) ==
    LET l == PROVIDER_LIMITS[provider]
    IN  (0..HandBuiltSpread)
        \cup ((l.recommended_images - HandBuiltSpread)
                  ..(l.recommended_images + HandBuiltSpread))
        \cup ((l.max_images - HandBuiltSpread)
                  ..(l.max_images + HandBuiltSpread))
        \cup {250, 5000}

Threads == 1..NumThreads

\* the calls the threads make: one or two argument lists per operation
ThreadCalls ==
    {[op |-> "estimate_iframes", duration |-> 25 * DurScale,
      provider |-> "gemini", frames |-> 0]}
    \cup {[op |-> "calculate_strategy", duration |-> 800 * DurScale,
           provider |-> p, frames |-> 0] : p \in AIProvider}
    \cup {[op |-> "get_preset_strategies", duration |-> 25 * DurScale,
           provider |-> "gemini", frames |-> 0]}
    \cup {[op |-> "validate_strategy", duration |-> 0,
           provider |-> p, frames |-> 250] : p \in AIProvider}
    \cup {[op |-> "estimate_tokens", duration |-> 0,
           provider |-> "gemini", frames |-> 10]}

\* the value a call returns in the current state
RunCall(c) ==
    CASE c.op = "estimate_iframes" -> estimate_iframes(c.duration)
      [] c.op = "calculate_strategy" ->
             calculate_strategy(c.duration, c.provider, None)
      [] c.op = "get_preset_strategies" ->
             get_preset_strategies(c.duration, c.provider)
      [] c.op = "validate_strategy" ->
             validate_strategy([mode |-> "interval", interval |-> Some(1),
                                estimated_frames |-> c.frames,
                                description |-> <<"hand_built">>],
                               c.provider)
      [] c.op = "estimate_tokens" -> estimate_tokens(c.frames, c.provider)

InitThreads ==
    /\ t_pc = [t \in Threads |-> "idle"]
    /\ t_call = [t \in Threads |-> None]
    /\ t_result = [t \in Threads |-> None]
    /\ seen = [c \in ThreadCalls |-> None]

\* durations of the videos loaded into the GUI, in seconds
GuiDurationsSec == {25, 800}

\* names the strategy combo box can show
PresetNames == {"detailed_2s", "standard_5s", "brief_10s", "all_iframes", "auto"}

\* MainWindow.__init__: no video, no strategy, no worker
InitObjects ==
    /\ objects = <<>>
    /\ video_duration = None
    /\ gui_strategy = None
    /\ worker_pc = "none"
    /\ worker_strategy = None
    /\ worker_interval = None
    /\ gui_validation = None

\* before analyze_video is called
InitCli ==
    /\ cli_pc = "idle"
    /\ cli_args = None
    /\ cli_duration = None
    /\ cli_interval = None
    /\ cli_cache_exists = FALSE
    /\ cli_cache_created = FALSE
    /\ cli_filter = ""
    /\ cli_result = [success |-> FALSE, error |-> ""]
    /\ cli_failed_at = ""

\* before write_video_metadata is called
InitMeta ==
    /\ wm_pc = "idle"
    /\ wm_args = None
    /\ wm_original = ""
    /\ wm_temp = ""
    /\ wm_summary_len = None
    /\ wm_return = None

\* MainWindow.__init__ and SettingsPanel._setup_ui: no video, no strategy, no
\* worker; the analyze button starts disabled, the other controls enabled
InitGui ==
    /\ mw_video_path = None
    /\ mw_strategy = None
    /\ mw_analyze_enabled = FALSE
    /\ mw_browse_enabled = TRUE
    /\ mw_youtube_enabled = TRUE
    /\ mw_timer_active = FALSE
    /\ mw_message = ""
    /\ mw_last_finish = None
    /\ mw_queue = <<>>
    /\ mw_validated = {}
    /\ aw_pc = "none"
    /\ aw_video_path = None
    /\ aw_strategy = None
    /\ aw_filter = ""
    /\ aw_prompt = ""
    /\ aw_emitted = <<>>
    /\ dw_pc = "none"

Init ==
    /\ provider_limits = PROVIDER_LIMITS
    /\ InitThreads
    /\ InitObjects
    /\ InitCli
    /\ InitGui
    /\ InitMeta
    /\ pc = "ready"
    /\ duration_sec = None
    /\ provider_arg = None
    /\ estimated_iframes_arg = None
    /\ iframes_result = None
    /\ current_strategy = None
    /\ strategy_origin = "none"
    /\ strategies = <<>>
    /\ validation = None
    /\ frame_count_arg = None
    /\ tokens_result = None
    /\ tokens_doubled = None

\* a call of estimate_iframes(duration_sec)
EstimateIframes ==
    /\ pc = "ready"
    /\ \E d \in Durations :
        /\ duration_sec' = Some(d)
        /\ iframes_result' = Some(estimate_iframes(d))
    /\ pc' = "estimated"
    /\ UNCHANGED <<tokenVars, nonPlannerVars>>
    /\ UNCHANGED <<provider_limits, provider_arg, estimated_iframes_arg, current_strategy,
                   strategy_origin, strategies, validation>>

\* a call of calculate_strategy; the caller keeps the result
\* (self.current_strategy = calculate_strategy(...))
CalculateStrategy ==
    /\ pc = "ready"
    /\ \E d \in Durations, p \in AIProvider :
        \E k \in KnownIframes(p) :
            /\ duration_sec' = Some(d)
            /\ provider_arg' = Some(p)
            /\ estimated_iframes_arg' = k
            /\ current_strategy' = Some(calculate_strategy(d, p, k))
    /\ strategy_origin' = "plan"
    /\ pc' = "planned"
    /\ UNCHANGED <<tokenVars, nonPlannerVars>>
    /\ UNCHANGED <<provider_limits, iframes_result, strategies, validation>>

\* a call of get_preset_strategies
GetPresetStrategies ==
    /\ pc = "ready"
    /\ \E d \in Durations, p \in AIProvider :
        /\ duration_sec' = Some(d)
        /\ provider_arg' = Some(p)
        /\ strategies' = get_preset_strategies(d, p)
    /\ pc' = "presets"
    /\ UNCHANGED <<tokenVars, nonPlannerVars>>
    /\ UNCHANGED <<provider_limits, estimated_iframes_arg, iframes_result, current_strategy,
                   strategy_origin, validation>>

\* _on_analyze_clicked with the menu shown and no strategy selected:
\*     if not self.current_strategy:
\*         self.current_strategy = calculate_strategy(duration, provider)
CalculateAfterPresets ==
    /\ pc = "presets"
    /\ current_strategy = None
    /\ current_strategy' =
           Some(calculate_strategy(Val(duration_sec), Val(provider_arg), None))
    /\ strategy_origin' = "plan"
    /\ pc' = "planned"
    /\ UNCHANGED <<tokenVars, nonPlannerVars>>
    /\ UNCHANGED <<provider_limits, duration_sec, provider_arg,
                   estimated_iframes_arg, iframes_result, strategies,
                   validation>>

\* _on_strategy_changed: if text in strategies:
\*     self.current_strategy = strategies[text]
SelectPreset ==
    /\ pc = "presets"
    /\ \E i \in 1..Len(strategies) :
        current_strategy' = Some(strategies[i].strategy)
    /\ strategy_origin' = "preset"
    /\ pc' = "selected"
    /\ UNCHANGED <<tokenVars, nonPlannerVars>>
    /\ UNCHANGED <<provider_limits, duration_sec, provider_arg, estimated_iframes_arg,
                   iframes_result, strategies, validation>>

\* a caller constructs an ExtractionStrategy itself, not through the planner
HandBuildStrategy ==
    /\ pc = "ready"
    /\ \E p \in AIProvider :
        \E n \in HandBuiltFrames(p), m \in {"all_iframes", "interval"} :
            /\ provider_arg' = Some(p)
            /\ current_strategy' =
                   Some([mode |-> m,
                         interval |-> IF m = "interval" THEN Some(1) ELSE None,
                         estimated_frames |-> n,
                         description |-> <<"hand_built">>])
    /\ strategy_origin' = "hand_built"
    /\ pc' = "hand_built"
    /\ UNCHANGED <<tokenVars, nonPlannerVars>>
    /\ UNCHANGED <<provider_limits, duration_sec, estimated_iframes_arg, iframes_result,
                   strategies, validation>>

ValidateStrategy_raising ==
    /\ pc \in {"planned", "selected", "hand_built"}
    /\ IF Val(current_strategy).estimated_frames
              > provider_limits[Val(provider_arg)].max_images
       THEN /\ pc' = "raised"
            /\ validation' = None
       ELSE /\ pc' = "validated"
            /\ validation' =
                   Some(validate_strategy(Val(current_strategy),
                                          Val(provider_arg)))
    /\ UNCHANGED <<tokenVars, nonPlannerVars>>
    /\ UNCHANGED <<provider_limits, duration_sec, provider_arg,
                   estimated_iframes_arg, iframes_result, current_strategy,
                   strategy_origin, strategies>>

\* a call of validate_strategy on the strategy the caller holds, for the
\* provider of the call that produced it
ValidateStrategy ==
    /\ pc \in {"planned", "selected", "hand_built"}
    /\ validation' =
           Some(validate_strategy(Val(current_strategy), Val(provider_arg)))
    /\ pc' = "validated"
    /\ UNCHANGED <<tokenVars, nonPlannerVars>>
    /\ UNCHANGED <<provider_limits, duration_sec, provider_arg, estimated_iframes_arg,
                   iframes_result, current_strategy, strategy_origin,
                   strategies>>

\* a call of estimate_tokens(frame_count, provider)
EstimateTokens ==
    /\ pc = "ready"
    /\ \E n \in FrameCounts, p \in AIProvider :
        /\ frame_count_arg' = Some(n)
        /\ provider_arg' = Some(p)
        /\ tokens_result' = Some(estimate_tokens(n, p))
    /\ pc' = "tokens"
    /\ UNCHANGED <<provider_limits, duration_sec, estimated_iframes_arg,
                   iframes_result, current_strategy, strategy_origin,
                   strategies, validation, tokens_doubled, nonPlannerVars>>

\* a second call, estimate_tokens(2 * frame_count, provider)
EstimateTokensDoubled ==
    /\ pc = "tokens"
    /\ tokens_doubled' =
           Some(estimate_tokens(2 * Val(frame_count_arg), Val(provider_arg)))
    /\ pc' = "tokens_doubled"
    /\ UNCHANGED <<provider_limits, duration_sec, provider_arg,
                   estimated_iframes_arg, iframes_result, current_strategy,
                   strategy_origin, strategies, validation, frame_count_arg,
                   tokens_result, nonPlannerVars>>

Next ==
    \/ EstimateIframes
    \/ CalculateStrategy
    \/ GetPresetStrategies
    \/ CalculateAfterPresets
    \/ SelectPreset
    \/ HandBuildStrategy
    \/ ValidateStrategy
    \/ EstimateTokens
    \/ EstimateTokensDoubled

Spec == Init /\ [][Next]_vars

\* ------------------------------------------------- concurrent callers

\* thread t enters an operation with its arguments
TCall(t) ==
    /\ t_pc[t] = "idle"
    /\ \E c \in ThreadCalls : t_call' = [t_call EXCEPT ![t] = Some(c)]
    /\ t_pc' = [t_pc EXCEPT ![t] = "running"]
    /\ UNCHANGED <<provider_limits, plannerVars, objectVars, otherVars, t_result, seen>>

TReturn_tuning(t) ==
    /\ t_pc[t] = "running"
    /\ LET c == Val(t_call[t])
           r == RunCall(c)
       IN  /\ t_result' = [t_result EXCEPT ![t] = Some(r)]
           /\ seen' = IF seen[c] = None
                      THEN [seen EXCEPT ![c] = Some(r)]
                      ELSE seen
           /\ provider_limits' =
                  IF /\ c.op = "calculate_strategy"
                     /\ r.estimated_frames
                            > provider_limits[c.provider].recommended_images
                  THEN [provider_limits EXCEPT
                            ![c.provider].recommended_images =
                                r.estimated_frames]
                  ELSE provider_limits
    /\ t_pc' = [t_pc EXCEPT ![t] = "returned"]
    /\ UNCHANGED <<plannerVars, objectVars, otherVars, t_call>>

\* the operation of thread t reads the limits table and its arguments,
\* computes on locals and returns; it assigns no attribute of self, of the
\* class or of an argument
TReturn(t) ==
    /\ t_pc[t] = "running"
    /\ LET c == Val(t_call[t])
           r == RunCall(c)
       IN  /\ t_result' = [t_result EXCEPT ![t] = Some(r)]
           /\ seen' = IF seen[c] = None
                      THEN [seen EXCEPT ![c] = Some(r)]
                      ELSE seen
    /\ t_pc' = [t_pc EXCEPT ![t] = "returned"]
    /\ UNCHANGED <<provider_limits, plannerVars, objectVars, otherVars, t_call>>

\* thread t drops the result and is free to call again
TDone(t) ==
    /\ t_pc[t] = "returned"
    /\ t_pc' = [t_pc EXCEPT ![t] = "idle"]
    /\ t_call' = [t_call EXCEPT ![t] = None]
    /\ t_result' = [t_result EXCEPT ![t] = None]
    /\ UNCHANGED <<provider_limits, plannerVars, objectVars, otherVars, seen>>

NextThreads ==
    \E t \in Threads :
        \/ TCall(t)
        \/ TReturn(t)
        \/ TDone(t)

SpecThreads == Init /\ [][NextThreads]_vars

\* ------------------------------------------ strategies as heap objects

\* the smallest object id not in use on the heap
FreshId(heap) ==
    CHOOSE n \in 1..(Cardinality(DOMAIN heap) + 1) :
        /\ n \notin DOMAIN heap
        /\ \A m \in 1..(n - 1) : m \in DOMAIN heap

\* the heap when a handler returns: the object obj it constructed and kept
\* under the fresh id, and of the older objects those a reference in live
\* still reaches; objects no reference reaches are freed.  (The other
\* ExtractionStrategy objects a planner call constructs are dropped inside
\* the handler and never on the heap between two handlers.)
HeapAfter(heap, id, obj, live) ==
    [n \in (DOMAIN heap \cap live) \cup {id} |->
        IF n = id THEN obj ELSE heap[n]]

\* the provider the GUI plans for ("Gemini only")
GuiProvider == "gemini"

\* _load_video: stores video_info and calls _update_strategy_list, which
\* clears the combo box and adds the "auto" item first; the combo box's
\* currentTextChanged signal for that item runs _on_strategy_changed, which
\* builds a menu and keeps its "auto" entry as current_strategy
LoadVideo ==
    /\ \E d \in GuiDurationsSec :
        LET menu == get_preset_strategies(d * DurScale, GuiProvider)
        IN  /\ video_duration' = Some(d * DurScale)
            /\ \E i \in 1..Len(menu) :
                   /\ menu[i].name = "auto"
                   /\ gui_strategy' = Some(FreshId(objects))
                   /\ objects' = HeapAfter(objects, FreshId(objects),
                                           menu[i].strategy, worker_strategy)
    /\ UNCHANGED <<provider_limits, plannerVars, threadVars, otherVars,
                   worker_pc, worker_strategy, worker_interval,
                   gui_validation>>

\* _on_strategy_changed(text): builds the menu again and keeps the entry
\* named text: self.current_strategy = strategies[text]
OnStrategyChanged ==
    /\ video_duration # None
    /\ \E text \in PresetNames :
        LET menu == get_preset_strategies(Val(video_duration), GuiProvider)
        IN  \E i \in 1..Len(menu) :
                /\ menu[i].name = text
                /\ gui_strategy' = Some(FreshId(objects))
                /\ objects' = HeapAfter(objects, FreshId(objects),
                                        menu[i].strategy, worker_strategy)
    /\ UNCHANGED <<provider_limits, plannerVars, threadVars, otherVars, video_duration,
                   worker_pc, worker_strategy, worker_interval,
                   gui_validation>>

\* _on_analyze_clicked: returns when no video is loaded or a worker runs;
\* plans when no strategy is held; hands the strategy object to a new worker
OnAnalyzeClicked ==
    /\ video_duration # None
    /\ worker_pc \in {"none", "finished"}
    /\ IF gui_strategy = None
       THEN /\ gui_strategy' = Some(FreshId(objects))
            /\ objects' =
                   HeapAfter(objects, FreshId(objects),
                             calculate_strategy(Val(video_duration),
                                                GuiProvider, None),
                             {})
       ELSE /\ gui_strategy' = gui_strategy
            /\ objects' = [n \in gui_strategy |-> objects[n]]
    /\ worker_strategy' = gui_strategy'
    /\ worker_pc' = "started"
    /\ worker_interval' = None
    /\ UNCHANGED <<provider_limits, plannerVars, threadVars, otherVars, video_duration,
                   gui_validation>>

WorkerExtract_defaulting ==
    /\ worker_pc = "started"
    /\ LET id == Val(worker_strategy)
       IN  IF objects[id].interval = None
           THEN /\ objects' = [objects EXCEPT ![id].interval = Some(5)]
                /\ worker_interval' = Some(Some(5))
           ELSE /\ objects' = objects
                /\ worker_interval' = Some(objects[id].interval)
    /\ worker_pc' = "extracted"
    /\ UNCHANGED <<provider_limits, plannerVars, threadVars, otherVars, video_duration,
                   gui_strategy, worker_strategy, gui_validation>>

\* AnalysisWorker.run, step 3: extract_frames(interval=self.strategy.interval)
WorkerExtract ==
    /\ worker_pc = "started"
    /\ worker_interval' = Some(objects[Val(worker_strategy)].interval)
    /\ worker_pc' = "extracted"
    /\ UNCHANGED <<provider_limits, plannerVars, threadVars, otherVars, objects,
                   video_duration, gui_strategy, worker_strategy,
                   gui_validation>>

\* AnalysisWorker.run, step 4: build_prompt(interval_sec=self.strategy.interval)
WorkerPrompt ==
    /\ worker_pc = "extracted"
    /\ worker_interval' = Some(objects[Val(worker_strategy)].interval)
    /\ worker_pc' = "prompted"
    /\ UNCHANGED <<provider_limits, plannerVars, threadVars, otherVars, objects,
                   video_duration, gui_strategy, worker_strategy,
                   gui_validation>>

\* AnalysisWorker.run, analyze(interval_sec=self.strategy.interval), then
\* _on_analysis_finished / _auto_save_to_history, which read mode and
\* interval of current_strategy for the history record
WorkerAnalyzeAndSave ==
    /\ worker_pc = "prompted"
    /\ worker_interval' = Some(objects[Val(worker_strategy)].interval)
    /\ gui_strategy # None =>
           objects[Val(gui_strategy)].mode \in {"all_iframes", "interval"}
    /\ worker_pc' = "finished"
    /\ UNCHANGED <<provider_limits, plannerVars, threadVars, otherVars, objects,
                   video_duration, gui_strategy, worker_strategy,
                   gui_validation>>

\* validate_strategy(self.current_strategy, provider): compares
\* strategy.estimated_frames with the limits and formats a message
ValidateHeld ==
    /\ gui_strategy # None
    /\ gui_validation' =
           Some(validate_strategy(objects[Val(gui_strategy)], GuiProvider))
    /\ UNCHANGED <<provider_limits, plannerVars, threadVars, otherVars, objects,
                   video_duration, gui_strategy, worker_pc, worker_strategy,
                   worker_interval>>

NextObjects ==
    \/ LoadVideo
    \/ OnStrategyChanged
    \/ OnAnalyzeClicked
    \/ WorkerExtract
    \/ WorkerPrompt
    \/ WorkerAnalyzeAndSave
    \/ ValidateHeld

SpecObjects == Init /\ [][NextObjects]_vars

\* ------------------------------------------------ command-line analysis

\* values of the --interval argument: absent, or a number of seconds
CliIntervals == {None, Some(2), Some(5)}

\* durations of the videos given to the command line, in seconds
CliDurationsSec == {25, 800}

\* everything the command-line analysis leaves alone
nonCliVars == <<provider_limits, plannerVars, threadVars, objectVars,
               guiVars, metaVars>>

\* analyze_video returns early: result["error"] is set and the function
\* returns (or the except clause sets it), with no cleanup on the way
CliReturnError(step, message) ==
    /\ cli_result' = [cli_result EXCEPT !.error = message]
    /\ cli_failed_at' = step
    /\ cli_pc' = "returned"

\* analyze_video(video_path, interval, ..., save_sidecar, save_history,
\* cleanup_cache): the call, result = {"success": False, "error": None}
CliCall ==
    /\ cli_pc = "idle"
    /\ \E i \in CliIntervals, c \in BOOLEAN, ss \in BOOLEAN, sh \in BOOLEAN :
        /\ cli_args' = Some([interval |-> i, cleanup_cache |-> c,
                             save_sidecar |-> ss, save_history |-> sh])
        /\ cli_interval' = i
    /\ cli_pc' = "called"
    /\ UNCHANGED <<cli_duration, cli_cache_exists, cli_cache_created,
                   cli_filter, cli_result, cli_failed_at, nonCliVars>>

\* deps = check_dependencies(); the three early returns for ffmpeg/ffprobe,
\* gemini and a missing file
CliCheckDependencies ==
    /\ cli_pc = "called"
    /\ \E missing \in {"none", "ffmpeg", "gemini", "file"} :
        IF missing = "none"
        THEN /\ cli_pc' = "checked"
             /\ UNCHANGED <<cli_result, cli_failed_at>>
        ELSE CliReturnError("dependencies", missing)
    /\ UNCHANGED <<cli_args, cli_duration, cli_interval, cli_cache_exists,
                   cli_cache_created, cli_filter, nonCliVars>>

\* video_info = extractor.get_video_info(video_path): raises for a file
\* ffprobe cannot read
CliGetVideoInfo ==
    /\ cli_pc = "checked"
    /\ \/ /\ \E d \in CliDurationsSec : cli_duration' = Some(d)
          /\ cli_pc' = "probed"
          /\ UNCHANGED <<cli_result, cli_failed_at>>
       \/ /\ CliReturnError("get_video_info", "ValueError")
          /\ UNCHANGED cli_duration
    /\ UNCHANGED <<cli_args, cli_interval, cli_cache_exists,
                   cli_cache_created, cli_filter, nonCliVars>>

\* if interval is None:
\*     strategy = optimizer.calculate_strategy(video_info.duration)
\*     interval = strategy.interval_seconds
\* inside the try block, whose except clause stores str(e) as the error
CliAutoInterval ==
    /\ cli_pc = "probed"
    /\ IF cli_interval = None
       THEN LET call == call_calculate_strategy(
                            <<Val(cli_duration) * DurScale>>)
            IN  IF call.raised # "none"
                THEN /\ CliReturnError("auto_interval", call.raised)
                     /\ UNCHANGED cli_interval
                ELSE IF "interval_seconds" \notin ExtractionStrategyFields
                THEN /\ CliReturnError("auto_interval", "AttributeError")
                     /\ UNCHANGED cli_interval
                ELSE /\ cli_interval' = call.value.interval
                     /\ cli_pc' = "interval_ready"
                     /\ UNCHANGED <<cli_result, cli_failed_at>>
       ELSE /\ cli_pc' = "interval_ready"
            /\ UNCHANGED <<cli_interval, cli_result, cli_failed_at>>
    /\ UNCHANGED <<cli_args, cli_duration, cli_cache_exists,
                   cli_cache_created, cli_filter, nonCliVars>>

\* cache_manager = CacheManager(auto_cleanup=cleanup_cache)
\* frames_dir = cache_manager.create_cache_dir(video_path)
CliCreateCacheDir ==
    /\ cli_pc = "interval_ready"
    /\ cli_cache_exists' = TRUE
    /\ cli_cache_created' = TRUE
    /\ cli_pc' = "cache_created"
    /\ UNCHANGED <<cli_args, cli_duration, cli_interval, cli_filter,
                   cli_result, cli_failed_at, nonCliVars>>

\* frames = extractor.extract_frames(video_path, frames_dir,
\* interval=interval): raises RuntimeError when ffmpeg produced no frame
CliExtractFrames ==
    /\ cli_pc = "cache_created"
    /\ cli_filter' = extract_frames_filter(cli_interval)
    /\ \/ /\ cli_pc' = "extracted"
          /\ UNCHANGED <<cli_result, cli_failed_at>>
       \/ CliReturnError("extract_frames", "RuntimeError")
    /\ UNCHANGED <<cli_args, cli_duration, cli_interval, cli_cache_exists,
                   cli_cache_created, nonCliVars>>

\* connector = AIConnectorFactory.create(...); analysis_result =
\* connector.analyze(...); if not analysis_result.success: return result
CliAnalyze ==
    /\ cli_pc = "extracted"
    /\ \E outcome \in {"raised", "failed", "ok"} :
        CASE outcome = "raised" -> CliReturnError("analyze", "Exception")
          [] outcome = "failed" -> CliReturnError("ai_result", "error_message")
          [] outcome = "ok" ->
                 /\ cli_result' = [cli_result EXCEPT !.success = TRUE]
                 /\ cli_pc' = "analyzed"
                 /\ UNCHANGED cli_failed_at
    /\ UNCHANGED <<cli_args, cli_duration, cli_interval, cli_cache_exists,
                   cli_cache_created, cli_filter, nonCliVars>>

\* if save_sidecar or save_history: store.save(record, ...), which may raise
CliSaveRecord ==
    /\ cli_pc = "analyzed"
    /\ \/ /\ cli_pc' = "saved"
          /\ UNCHANGED <<cli_result, cli_failed_at>>
       \/ /\ Val(cli_args).save_sidecar \/ Val(cli_args).save_history
          /\ CliReturnError("save", "OSError")
    /\ UNCHANGED <<cli_args, cli_duration, cli_interval, cli_cache_exists,
                   cli_cache_created, cli_filter, nonCliVars>>

\* if cleanup_cache: cache_manager.cleanup_video_cache(video_path), which
\* removes the cache directory of the video; then return result
CliCleanupCache ==
    /\ cli_pc = "saved"
    /\ cli_cache_exists' = IF Val(cli_args).cleanup_cache
                           THEN FALSE
                           ELSE cli_cache_exists
    /\ cli_pc' = "returned"
    /\ UNCHANGED <<cli_args, cli_duration, cli_interval, cli_cache_created,
                   cli_filter, cli_result, cli_failed_at, nonCliVars>>

NextCli ==
    \/ CliCall
    \/ CliCheckDependencies
    \/ CliGetVideoInfo
    \/ CliAutoInterval
    \/ CliCreateCacheDir
    \/ CliExtractFrames
    \/ CliAnalyze
    \/ CliSaveRecord
    \/ CliCleanupCache

SpecCli == Init /\ [][NextCli]_vars

\* ------------------------------------------ the window and its workers

\* the video files the user can load, and the file a download produces
Videos == {"a.mp4", "b.mp4"}

DownloadedVideo == "b.mp4"

\* video_info.duration of each file, in 1/DurScale seconds
VideoDuration(v) == (IF v = "a.mp4" THEN 800 ELSE 25) * DurScale

\* everything the window and its workers leave alone
nonGuiVars == <<provider_limits, plannerVars, threadVars, objectVars,
                cliVars, metaVars>>

\* QThread.isRunning() of self.worker and of self.download_worker
AwRunning == aw_pc \notin {"none", "exited"}

DwRunning == dw_pc \notin {"none", "exited"}

\* the event loop (app.exec()) delivers the queued signals of the workers,
\* in order, before it handles a user event that arrives after them
event_loop_idle == mw_queue = <<>>

\* a signal of a worker, queued for the thread of the window
Signal(sig, video, ok) == [sig |-> sig, video |-> video, ok |-> ok]

\* _on_strategy_changed(text) with a video loaded: the entry named text of
\* get_preset_strategies, current_strategy when text is no key of it
strategy_for_text(video, text, current) ==
    LET menu == get_preset_strategies(VideoDuration(video), GuiProvider)
        hits == {i \in 1..Len(menu) : menu[i].name = text}
    IN  IF hits = {} THEN current
        ELSE Some(menu[CHOOSE i \in hits : TRUE].strategy)

\* _load_video(video_path) when get_video_info succeeds: video_info and
\* video_path are stored; _update_strategy_list clears the combo box and
\* adds the "auto" item first, whose currentTextChanged signal runs
\* _on_strategy_changed("auto"); then set_analyze_enabled(True)
load_video(v) ==
    /\ mw_video_path' = Some(v)
    /\ mw_strategy' = strategy_for_text(v, "auto", mw_strategy)
    /\ mw_analyze_enabled' = TRUE

\* a file is dropped on the drop zone (file_dropped, never disabled) or
\* chosen with the browse button: _load_video; an unreadable file shows an
\* error box and changes nothing
LoadVideoFile ==
    /\ event_loop_idle
    /\ \E v \in Videos :
        \/ /\ load_video(v)
           /\ mw_message' = ""
        \/ /\ mw_message' = "load_error"
           /\ UNCHANGED <<mw_video_path, mw_strategy, mw_analyze_enabled>>
    /\ UNCHANGED <<mw_browse_enabled, mw_youtube_enabled, mw_timer_active,
                   mw_last_finish, mw_queue, mw_validated, aw_pc,
                   aw_video_path, aw_strategy, aw_filter, aw_prompt,
                   aw_emitted, dw_pc, nonGuiVars>>

\* the user picks an item of the strategy combo box: _on_strategy_changed
StrategyChanged ==
    /\ event_loop_idle
    /\ mw_video_path # None
    /\ mw_message' = ""
    /\ \E text \in PresetNames :
        mw_strategy' = strategy_for_text(Val(mw_video_path), text, mw_strategy)
    /\ UNCHANGED <<mw_video_path, mw_analyze_enabled, mw_browse_enabled,
                   mw_youtube_enabled, mw_timer_active, mw_last_finish,
                   mw_queue, mw_validated, aw_pc, aw_video_path, aw_strategy,
                   aw_filter, aw_prompt, aw_emitted, dw_pc, nonGuiVars>>

analyze_blocked_never == FALSE

\* the guard of _on_analyze_clicked:
\*     if self.worker and self.worker.isRunning(): warn and return
analyze_blocked == AwRunning

\* a click on the analyze button (possible while it is enabled):
\* _on_analyze_clicked.  It returns when no video is loaded; warns and
\* returns while the worker runs; plans when no strategy is held; warns and
\* returns when the provider's CLI is not installed; else disables the
\* analyze and browse buttons and starts a new AnalysisWorker
AnalyzeClicked ==
    /\ event_loop_idle
    /\ mw_analyze_enabled
    /\ IF mw_video_path = None
       THEN /\ mw_message' = ""
            /\ UNCHANGED <<mw_strategy, mw_analyze_enabled, mw_browse_enabled,
                           mw_last_finish, awVars>>
       ELSE IF analyze_blocked
       THEN /\ mw_message' = "analysis_running"
            /\ UNCHANGED <<mw_strategy, mw_analyze_enabled, mw_browse_enabled,
                           mw_last_finish, awVars>>
       ELSE LET strategy == IF mw_strategy = None
                            THEN Some(calculate_strategy(
                                          VideoDuration(Val(mw_video_path)),
                                          GuiProvider, None))
                            ELSE mw_strategy
            IN  /\ mw_strategy' = strategy
                /\ \/ /\ mw_message' = "provider_missing"
                      /\ UNCHANGED <<mw_analyze_enabled, mw_browse_enabled,
                                     mw_last_finish, awVars>>
                   \/ /\ mw_analyze_enabled' = FALSE
                      /\ mw_browse_enabled' = FALSE
                      /\ aw_pc' = "started"
                      /\ aw_video_path' = mw_video_path
                      /\ aw_strategy' = strategy
                      /\ aw_filter' = ""
                      /\ aw_prompt' = ""
                      /\ aw_emitted' = <<>>
                      /\ mw_last_finish' = None
                      /\ mw_message' = ""
    /\ UNCHANGED <<mw_video_path, mw_youtube_enabled, mw_timer_active,
                   mw_queue, mw_validated, dw_pc, nonGuiVars>>

\* the guard of _on_youtube_download_clicked:
\*     if self.download_worker and self.download_worker.isRunning():
download_blocked == DwRunning

\* a click on the download button (possible while it is enabled):
\* _on_youtube_download_clicked.  It warns and returns for an invalid url,
\* for a missing yt-dlp and while a download runs; else disables the
\* YouTube controls, the browse and the analyze button and starts a new
\* DownloadWorker
DownloadClicked ==
    /\ event_loop_idle
    /\ mw_youtube_enabled
    /\ \E problem \in {"none", "invalid_url", "ytdlp_missing"} :
        IF problem # "none"
        THEN /\ mw_message' = problem
             /\ UNCHANGED <<mw_youtube_enabled, mw_browse_enabled,
                            mw_analyze_enabled, dw_pc>>
        ELSE IF download_blocked
        THEN /\ mw_message' = "download_running"
             /\ UNCHANGED <<mw_youtube_enabled, mw_browse_enabled,
                            mw_analyze_enabled, dw_pc>>
        ELSE /\ mw_youtube_enabled' = FALSE
             /\ mw_browse_enabled' = FALSE
             /\ mw_analyze_enabled' = FALSE
             /\ dw_pc' = "running"
             /\ mw_message' = ""
    /\ UNCHANGED <<mw_video_path, mw_strategy, mw_timer_active, mw_last_finish,
                   mw_queue, mw_validated, aw_pc, aw_video_path, aw_strategy,
                   aw_filter, aw_prompt, aw_emitted, nonGuiVars>>

\* DownloadWorker.run: emits finished(True, file_path, title) after a
\* successful download, error(message) otherwise, once
DownloadRun ==
    /\ dw_pc = "running"
    /\ \/ \E on_disk \in BOOLEAN :
              mw_queue' = Append(mw_queue, Signal("download_finished",
                                                  DownloadedVideo, on_disk))
       \/ mw_queue' = Append(mw_queue, Signal("download_error", "", FALSE))
    /\ dw_pc' = "emitted"
    /\ UNCHANGED <<mw_video_path, mw_strategy, mw_analyze_enabled,
                   mw_browse_enabled, mw_youtube_enabled, mw_timer_active,
                   mw_message, mw_last_finish, mw_validated, aw_pc,
                   aw_video_path, aw_strategy, aw_filter, aw_prompt,
                   aw_emitted, nonGuiVars>>

\* run() of the download worker returns and the thread ends
DownloadExit ==
    /\ dw_pc = "emitted"
    /\ dw_pc' = "exited"
    /\ UNCHANGED <<mw_video_path, mw_strategy, mw_analyze_enabled,
                   mw_browse_enabled, mw_youtube_enabled, mw_timer_active,
                   mw_message, mw_last_finish, mw_queue, mw_validated, aw_pc,
                   aw_video_path, aw_strategy, aw_filter, aw_prompt,
                   aw_emitted, nonGuiVars>>

\* _on_download_finished(success, file_path, title): enables the YouTube
\* controls and the browse button; loads the file when it exists
OnDownloadFinished ==
    /\ mw_queue # <<>>
    /\ Head(mw_queue).sig = "download_finished"
    /\ mw_queue' = Tail(mw_queue)
    /\ mw_youtube_enabled' = TRUE
    /\ mw_browse_enabled' = TRUE
    /\ IF Head(mw_queue).ok
       THEN \/ /\ load_video(Head(mw_queue).video)
               /\ mw_message' = ""
            \/ /\ mw_message' = "load_error"
               /\ UNCHANGED <<mw_video_path, mw_strategy, mw_analyze_enabled>>
       ELSE /\ mw_message' = ""
            /\ UNCHANGED <<mw_video_path, mw_strategy, mw_analyze_enabled>>
    /\ UNCHANGED <<mw_timer_active, mw_last_finish, mw_validated, aw_pc,
                   aw_video_path, aw_strategy, aw_filter, aw_prompt,
                   aw_emitted, dw_pc, nonGuiVars>>

\* _on_download_error(message): enables the YouTube controls and the
\* browse button and shows the error
OnDownloadError ==
    /\ mw_queue # <<>>
    /\ Head(mw_queue).sig = "download_error"
    /\ mw_queue' = Tail(mw_queue)
    /\ mw_youtube_enabled' = TRUE
    /\ mw_browse_enabled' = TRUE
    /\ mw_message' = "download_error"
    /\ UNCHANGED <<mw_video_path, mw_strategy, mw_analyze_enabled,
                   mw_timer_active, mw_last_finish, mw_validated, aw_pc,
                   aw_video_path, aw_strategy, aw_filter, aw_prompt,
                   aw_emitted, dw_pc, nonGuiVars>>

worker_extract_interval_omitted(strategy) == None

\* the interval argument AnalysisWorker.run passes to extract_frames:
\*     interval=self.strategy.interval
worker_extract_interval(strategy) == strategy.interval

except_signals_error_only(video) == <<Signal("error", video, FALSE)>>

\* the except clause of AnalysisWorker.run:
\*     self.ai_analysis_finished.emit(); self.error.emit(str(e))
except_signals(video) ==
    <<Signal("ai_analysis_finished", video, FALSE),
      Signal("error", video, FALSE)>>

\* a step of run() raises: the except clause emits its signals and run()
\* is over
AwRaise ==
    /\ mw_queue' = mw_queue \o except_signals(Val(aw_video_path))
    /\ aw_emitted' = aw_emitted \o except_signals(Val(aw_video_path))
    /\ aw_pc' = "emitted"

\* a step of run() other than an emit succeeds and run() goes on to pc
AwStep(next_pc) ==
    /\ aw_pc' = next_pc
    /\ UNCHANGED <<mw_queue, aw_emitted>>

\* run() emits one signal and goes on to pc
AwEmit(signal, next_pc) ==
    /\ mw_queue' = Append(mw_queue, signal)
    /\ aw_emitted' = Append(aw_emitted, signal)
    /\ aw_pc' = next_pc

\* run, step 1: frames_dir = self.cache_manager.create_cache_dir(...)
AwCreateCacheDir ==
    /\ aw_pc = "started"
    /\ \/ AwStep("cache_dir")
       \/ AwRaise
    /\ UNCHANGED <<mw_video_path, mw_strategy, mw_analyze_enabled,
                   mw_browse_enabled, mw_youtube_enabled, mw_timer_active,
                   mw_message, mw_last_finish, mw_validated, aw_video_path,
                   aw_strategy, aw_filter, aw_prompt, dw_pc, nonGuiVars>>

\* run, step 2: self.video_info = self.frame_extractor.get_video_info(...)
AwGetVideoInfo ==
    /\ aw_pc = "cache_dir"
    /\ \/ AwStep("probed")
       \/ AwRaise
    /\ UNCHANGED <<mw_video_path, mw_strategy, mw_analyze_enabled,
                   mw_browse_enabled, mw_youtube_enabled, mw_timer_active,
                   mw_message, mw_last_finish, mw_validated, aw_video_path,
                   aw_strategy, aw_filter, aw_prompt, dw_pc, nonGuiVars>>

\* run, step 3: frames = extract_frames(video_path, frames_dir,
\* interval=self.strategy.interval), which builds its filter and raises
\* when ffmpeg leaves no frame
AwExtractFrames ==
    /\ aw_pc = "probed"
    /\ aw_filter' = extract_frames_filter(
                        worker_extract_interval(Val(aw_strategy)))
    /\ \/ AwStep("extracted")
       \/ AwRaise
    /\ UNCHANGED <<mw_video_path, mw_strategy, mw_analyze_enabled,
                   mw_browse_enabled, mw_youtube_enabled, mw_timer_active,
                   mw_message, mw_last_finish, mw_validated, aw_video_path,
                   aw_strategy, aw_prompt, dw_pc, nonGuiVars>>

\* run, step 4: connector = AIConnectorFactory.create(...); prompt =
\* connector.build_prompt(interval_sec=self.strategy.interval, ...)
AwBuildPrompt ==
    /\ aw_pc = "extracted"
    /\ \/ /\ AwStep("prompted")
          /\ aw_prompt' =
                 build_prompt_interval_desc(Val(aw_strategy).interval)
       \/ /\ AwRaise
          /\ UNCHANGED aw_prompt
    /\ UNCHANGED <<mw_video_path, mw_strategy, mw_analyze_enabled,
                   mw_browse_enabled, mw_youtube_enabled, mw_timer_active,
                   mw_message, mw_last_finish, mw_validated, aw_video_path,
                   aw_strategy, aw_filter, dw_pc, nonGuiVars>>

\* run: self.ai_analysis_started.emit()
AwAiAnalysisStarted ==
    /\ aw_pc = "prompted"
    /\ AwEmit(Signal("ai_analysis_started", Val(aw_video_path), FALSE),
              "analyzing")
    /\ UNCHANGED <<mw_video_path, mw_strategy, mw_analyze_enabled,
                   mw_browse_enabled, mw_youtube_enabled, mw_timer_active,
                   mw_message, mw_last_finish, mw_validated, aw_video_path,
                   aw_strategy, aw_filter, aw_prompt, dw_pc, nonGuiVars>>

\* run: result = connector.analyze(...), which raises or returns a result
\* with success True or False; then self.ai_analysis_finished.emit()
AwAnalyze ==
    /\ aw_pc = "analyzing"
    /\ \/ \E success \in BOOLEAN :
              AwEmit(Signal("ai_analysis_finished", Val(aw_video_path), FALSE),
                     IF success THEN "analyzed_ok" ELSE "analyzed_failed")
       \/ AwRaise
    /\ UNCHANGED <<mw_video_path, mw_strategy, mw_analyze_enabled,
                   mw_browse_enabled, mw_youtube_enabled, mw_timer_active,
                   mw_message, mw_last_finish, mw_validated, aw_video_path,
                   aw_strategy, aw_filter, aw_prompt, dw_pc, nonGuiVars>>

\* run, step 5: self.finished.emit(result, self.video_info)
AwEmitFinished ==
    /\ aw_pc \in {"analyzed_ok", "analyzed_failed"}
    /\ AwEmit(Signal("finished", Val(aw_video_path), aw_pc = "analyzed_ok"),
              "emitted")
    /\ UNCHANGED <<mw_video_path, mw_strategy, mw_analyze_enabled,
                   mw_browse_enabled, mw_youtube_enabled, mw_timer_active,
                   mw_message, mw_last_finish, mw_validated, aw_video_path,
                   aw_strategy, aw_filter, aw_prompt, dw_pc, nonGuiVars>>

\* run() returns and the thread ends: isRunning() is False from here on
AwExit ==
    /\ aw_pc = "emitted"
    /\ aw_pc' = "exited"
    /\ UNCHANGED <<mw_video_path, mw_strategy, mw_analyze_enabled,
                   mw_browse_enabled, mw_youtube_enabled, mw_timer_active,
                   mw_message, mw_last_finish, mw_queue, mw_validated,
                   aw_video_path, aw_strategy, aw_filter, aw_prompt,
                   aw_emitted, dw_pc, nonGuiVars>>

\* _on_ai_analysis_started: self.elapsed_timer.start()
OnAiAnalysisStarted ==
    /\ mw_queue # <<>>
    /\ Head(mw_queue).sig = "ai_analysis_started"
    /\ mw_queue' = Tail(mw_queue)
    /\ mw_timer_active' = TRUE
    /\ mw_message' = ""
    /\ UNCHANGED <<mw_video_path, mw_strategy, mw_analyze_enabled,
                   mw_browse_enabled, mw_youtube_enabled, mw_last_finish,
                   mw_validated, aw_pc, aw_video_path, aw_strategy, aw_filter,
                   aw_prompt, aw_emitted, dw_pc, nonGuiVars>>

\* _on_ai_analysis_finished: self.elapsed_timer.stop()
OnAiAnalysisFinished ==
    /\ mw_queue # <<>>
    /\ Head(mw_queue).sig = "ai_analysis_finished"
    /\ mw_queue' = Tail(mw_queue)
    /\ mw_timer_active' = FALSE
    /\ mw_message' = ""
    /\ UNCHANGED <<mw_video_path, mw_strategy, mw_analyze_enabled,
                   mw_browse_enabled, mw_youtube_enabled, mw_last_finish,
                   mw_validated, aw_pc, aw_video_path, aw_strategy, aw_filter,
                   aw_prompt, aw_emitted, dw_pc, nonGuiVars>>

\* _on_analysis_finished(result, video_info): stops the timer, enables the
\* analyze and browse buttons; for a successful result
\* _auto_save_to_history builds the record from self.video_path,
\* self.video_info and self.current_strategy and saves it (a failure to
\* save is caught), and the cache of self.video_path is cleaned
\* (cache_manager.auto_cleanup is True)
OnAnalysisFinished ==
    /\ mw_queue # <<>>
    /\ Head(mw_queue).sig = "finished"
    /\ mw_queue' = Tail(mw_queue)
    /\ mw_timer_active' = FALSE
    /\ mw_analyze_enabled' = TRUE
    /\ mw_browse_enabled' = TRUE
    /\ IF Head(mw_queue).ok
       THEN \E saved \in BOOLEAN :
               mw_last_finish' =
                   Some([analysed |-> Head(mw_queue).video,
                         saved |-> IF saved THEN mw_video_path ELSE None,
                         cleaned |-> mw_video_path])
       ELSE UNCHANGED mw_last_finish
    /\ mw_message' = ""
    /\ UNCHANGED <<mw_video_path, mw_strategy, mw_youtube_enabled,
                   mw_validated, aw_pc, aw_video_path, aw_strategy, aw_filter,
                   aw_prompt, aw_emitted, dw_pc, nonGuiVars>>

\* _on_analysis_error(message): stops the timer, enables the analyze and
\* browse buttons and shows the error
OnAnalysisError ==
    /\ mw_queue # <<>>
    /\ Head(mw_queue).sig = "error"
    /\ mw_queue' = Tail(mw_queue)
    /\ mw_timer_active' = FALSE
    /\ mw_analyze_enabled' = TRUE
    /\ mw_browse_enabled' = TRUE
    /\ mw_message' = "analysis_error"
    /\ UNCHANGED <<mw_video_path, mw_strategy, mw_youtube_enabled,
                   mw_last_finish, mw_validated, aw_pc, aw_video_path,
                   aw_strategy, aw_filter, aw_prompt, aw_emitted, dw_pc,
                   nonGuiVars>>

NextGui ==
    \/ LoadVideoFile
    \/ StrategyChanged
    \/ AnalyzeClicked
    \/ DownloadClicked
    \/ DownloadRun
    \/ DownloadExit
    \/ OnDownloadFinished
    \/ OnDownloadError
    \/ AwCreateCacheDir
    \/ AwGetVideoInfo
    \/ AwExtractFrames
    \/ AwBuildPrompt
    \/ AwAiAnalysisStarted
    \/ AwAnalyze
    \/ AwEmitFinished
    \/ AwExit
    \/ OnAiAnalysisStarted
    \/ OnAiAnalysisFinished
    \/ OnAnalysisFinished
    \/ OnAnalysisError

SpecGui == Init /\ [][NextGui]_vars

\* ------------------------------------------- metadata written to the video

\* len(record.analysis_result) of the records written
ResultLengths == {0, 250, 251, 300}

\* video_path.suffix.lower() of the videos written to
Suffixes == {".mkv", ".mp4"}

\* everything write_video_metadata leaves alone
nonMetaVars == <<provider_limits, plannerVars, threadVars, objectVars,
                 cliVars, guiVars>>

\* replace_original: True when no output path was given
replace_original == Val(wm_args).output_path = None

\* len(summary): analysis_result[:250] + "..." when longer than 250
summary_len(result_len) ==
    IF result_len > SummaryLimit THEN SummaryLimit + 3 ELSE result_len

\* the names of the metadata tags written, by suffix
metadata_args(ext) ==
    IF ext = ".mkv"
    THEN {"ANALYSIS_ID", "ANALYSIS_DATE", "ANALYSIS_PROVIDER",
          "ANALYSIS_SUMMARY"}
    ELSE {"comment", "description"}

\* return (ok, message)
WmReturn(ok, message) ==
    /\ wm_return' = Some([ok |-> ok, message |-> message])
    /\ wm_pc' = "returned"

\* write_video_metadata(video_path, record, output_path): the arguments, and
\* the files on disk when it is called (a video or none at video_path; nothing
\* or a file left over at temp_path)
WmCall ==
    /\ wm_pc = "idle"
    /\ \E out \in {None, Some("out")}, ext \in Suffixes,
          len \in ResultLengths, ffmpeg \in BOOLEAN,
          orig \in {"", "original"}, temp \in {"", "stale"} :
          /\ wm_args' = Some([output_path |-> out, ext |-> ext,
                              result_len |-> len, ffmpeg |-> ffmpeg,
                              existed |-> orig # ""])
          /\ wm_original' = orig
          /\ wm_temp' = temp
    /\ wm_pc' = "called"
    /\ UNCHANGED <<wm_summary_len, wm_return, nonMetaVars>>

\* the two early returns, then temp_path, summary and the command line
WmPrepare ==
    /\ wm_pc = "called"
    /\ IF ~Val(wm_args).ffmpeg
       THEN /\ WmReturn(FALSE, "no_ffmpeg")
            /\ UNCHANGED wm_summary_len
       ELSE IF wm_original = ""
       THEN /\ WmReturn(FALSE, "not_found")
            /\ UNCHANGED wm_summary_len
       ELSE /\ wm_summary_len' = Some(summary_len(Val(wm_args).result_len))
            /\ wm_pc' = "prepared"
            /\ UNCHANGED wm_return
    /\ UNCHANGED <<wm_args, wm_original, wm_temp, nonMetaVars>>

\* subprocess.run(cmd, timeout=60): ffmpeg writes temp_path and exits with 0,
\* or fails (non-zero exit, timeout, or the process cannot be started) and
\* leaves temp_path as it was or partly written
WmRunFfmpeg ==
    /\ wm_pc = "prepared"
    /\ \/ /\ wm_temp' = "tagged"
          /\ wm_pc' = "ran_ok"
          /\ UNCHANGED wm_return
       \/ \E message \in {"ffmpeg_error", "timeout", "exception"},
             temp \in {wm_temp, "partial"} :
             /\ wm_temp' = temp
             /\ wm_return' = Some([ok |-> FALSE, message |-> message])
             /\ wm_pc' = "cleanup"
    /\ UNCHANGED <<wm_args, wm_original, wm_summary_len, nonMetaVars>>

\* the failure paths: if temp_path.exists(): temp_path.unlink(); return
\* (False, message)
WmCleanupTemp ==
    /\ wm_pc = "cleanup"
    /\ wm_temp' = ""
    /\ wm_pc' = "returned"
    /\ UNCHANGED <<wm_args, wm_original, wm_summary_len, wm_return,
                   nonMetaVars>>

\* video_path.unlink(), which removes the original or raises OSError into the
\* except clause
WmUnlinkOriginal ==
    /\ wm_pc = "ran_ok"
    /\ replace_original
    /\ \/ /\ wm_original' = ""
          /\ wm_pc' = "unlinked"
          /\ UNCHANGED wm_return
       \/ /\ wm_return' = Some([ok |-> FALSE, message |-> "exception"])
          /\ wm_pc' = "cleanup"
          /\ UNCHANGED wm_original
    /\ UNCHANGED <<wm_args, wm_temp, wm_summary_len, nonMetaVars>>

\* temp_path.rename(video_path), which moves the tagged file to video_path or
\* raises OSError into the except clause
WmRename ==
    /\ wm_pc = "unlinked"
    /\ \/ /\ wm_original' = wm_temp
          /\ wm_temp' = ""
          /\ wm_pc' = "replaced"
          /\ UNCHANGED wm_return
       \/ /\ wm_return' = Some([ok |-> FALSE, message |-> "exception"])
          /\ wm_pc' = "cleanup"
          /\ UNCHANGED <<wm_original, wm_temp>>
    /\ UNCHANGED <<wm_args, wm_summary_len, nonMetaVars>>

\* return (True, ...), after the replacement or with the output file written
WmReturnOk ==
    /\ \/ wm_pc = "replaced"
       \/ wm_pc = "ran_ok" /\ ~replace_original
    /\ WmReturn(TRUE, "saved")
    /\ UNCHANGED <<wm_args, wm_original, wm_temp, wm_summary_len,
                   nonMetaVars>>

NextMeta ==
    \/ WmCall
    \/ WmPrepare
    \/ WmRunFfmpeg
    \/ WmCleanupTemp
    \/ WmUnlinkOriginal
    \/ WmRename
    \/ WmReturnOk

SpecMeta == Init /\ [][NextMeta]_vars

\* ---------------------------------------------------------------- claims

\* the strategy the caller holds comes from calculate_strategy
FromPlan == strategy_origin = "plan"

PlanStrategy == Val(current_strategy)

PlanLimits == provider_limits[Val(provider_arg)]

NiceSet == {1, 2, 3, 5, 10, 15, 20, 30, 60}

\* C1: for every duration > 0 and every provider, the strategy returned by
\* calculate_strategy (with or without a known keyframe count) has
\* estimated_frames <= the provider's recommended_images, in interval mode
\* and in all_iframes mode.
C1_PlanWithinRecommended ==
    (FromPlan /\ Val(duration_sec) > 0)
        => PlanStrategy.estimated_frames <= PlanLimits.recommended_images

\* C2: for every duration >= 0 and every provider, validate_strategy applied
\* to the strategy calculate_strategy(duration, provider) returned, for the
\* same provider, returns ok = True.
C2_PlanPassesValidate ==
    (pc = "validated" /\ FromPlan /\ estimated_iframes_arg = None)
        => Val(validation).ok = TRUE

\* C3: calculate_strategy returns mode all_iframes if and only if the
\* resolved keyframe estimate is <= recommended_images, and then
\* estimated_frames is that estimate exactly; otherwise the mode is interval.
C3_ModeDecision ==
    FromPlan =>
        LET e == IF estimated_iframes_arg = None
                 THEN estimate_iframes(Val(duration_sec))
                 ELSE Val(estimated_iframes_arg)
        IN  /\ (PlanStrategy.mode = "all_iframes")
                   <=> (e <= PlanLimits.recommended_images)
            /\ PlanStrategy.mode = "all_iframes"
                   => PlanStrategy.estimated_frames = e
            /\ PlanStrategy.mode # "all_iframes"
                   => PlanStrategy.mode = "interval"

\* C3 witness: 300 s for gemini: 100 keyframes <= 200, all_iframes with 100
C3_Witness ==
    /\ pc = "planned"
    /\ duration_sec = Some(300 * DurScale)
    /\ provider_arg = Some("gemini")
    /\ estimated_iframes_arg = None
    /\ PlanStrategy.mode = "all_iframes"
    /\ PlanStrategy.estimated_frames = 100

ModePairing(st) ==
    /\ st.mode \in {"all_iframes", "interval"}
    /\ (st.mode = "all_iframes") <=> (st.interval = None)
    /\ (st.mode = "interval") <=> (st.interval # None)

\* C4: every strategy calculate_strategy returns and every entry of the menu
\* get_preset_strategies returns has mode all_iframes if and only if its
\* interval is None, and mode interval if and only if it has an interval.
C4_ModeIntervalPairing ==
    /\ FromPlan => ModePairing(PlanStrategy)
    /\ \A i \in 1..Len(strategies) : ModePairing(strategies[i].strategy)

\* C4 witness: a menu with the three fixed presets, all_iframes and auto
C4_Witness ==
    /\ pc = "presets"
    /\ Len(strategies) = 5
    /\ \E i \in 1..5 : strategies[i].strategy.mode = "all_iframes"
    /\ \E i \in 1..5 : strategies[i].strategy.interval = Some(2)

\* C5: whenever a strategy returned by calculate_strategy carries an
\* interval, the interval is one of 1, 2, 3, 5, 10, 15, 20, 30, 60.
C5_IntervalIsNice ==
    (FromPlan /\ PlanStrategy.interval # None)
        => Val(PlanStrategy.interval) \in NiceSet

\* C5 witness: one hour for gemini is sampled every 20 s
C5_Witness ==
    /\ pc = "planned"
    /\ duration_sec = Some(3600 * DurScale)
    /\ provider_arg = Some("gemini")
    /\ PlanStrategy.interval = Some(20)

\* |x - clamp(duration / recommended_images, 1, 60)|, scaled by
\* recommended_images * DurScale
DistToIdeal(x) ==
    LET den == PlanLimits.recommended_images * DurScale
        d == Val(duration_sec)
        ideal == IF d < den THEN den ELSE IF d > 60 * den THEN 60 * den ELSE d
    IN  IF x * den >= ideal THEN x * den - ideal ELSE ideal - x * den

\* C6: in interval mode the chosen interval is the nice interval with the
\* least absolute difference to clamp(duration / recommended_images, 1, 60),
\* the smaller one of two equally near (ideal 4 gives 3, 17.5 gives 15,
\* 18 gives 20).
C6_NearestNiceInterval ==
    (FromPlan /\ PlanStrategy.mode = "interval") =>
        LET chosen == Val(PlanStrategy.interval)
            rec == PlanLimits.recommended_images
            d == Val(duration_sec)
        IN  /\ \A x \in NiceSet :
                /\ DistToIdeal(chosen) <= DistToIdeal(x)
                /\ DistToIdeal(chosen) = DistToIdeal(x) => chosen <= x
            /\ d = 4 * rec * DurScale => chosen = 3
            /\ 2 * d = 35 * rec * DurScale => chosen = 15
            /\ d = 18 * rec * DurScale => chosen = 20

\* C6 witness: 3500 s for gemini, ideal 17.5 s, as near to 15 as to 20
C6_Witness ==
    /\ pc = "planned"
    /\ duration_sec = Some(3500 * DurScale)
    /\ provider_arg = Some("gemini")
    /\ PlanStrategy.mode = "interval"
    /\ DistToIdeal(15) = DistToIdeal(20)
    /\ PlanStrategy.interval = Some(15)

\* C7: in interval mode estimated_frames is floor(duration / chosen
\* interval), from the snapped interval, and is a non-negative integer.
C7_IntervalFrameCount ==
    (FromPlan /\ PlanStrategy.mode = "interval") =>
        LET n == PlanStrategy.estimated_frames
            step == Val(PlanStrategy.interval) * DurScale
        IN  /\ n \in Nat
            /\ n * step <= Val(duration_sec)
            /\ Val(duration_sec) < (n + 1) * step

\* C7 witness: one hour for gemini: ideal 18 s would give 200 frames, the
\* snapped 20 s gives 180
C7_Witness ==
    /\ pc = "planned"
    /\ duration_sec = Some(3600 * DurScale)
    /\ provider_arg = Some("gemini")
    /\ estimated_iframes_arg = None
    /\ PlanStrategy.mode = "interval"
    /\ PlanStrategy.estimated_frames = 180

\* C8: when a known keyframe count is supplied (0 included) the mode
\* decision and the all_iframes frame count use that count; the
\* duration-based estimate is used only when none is supplied.
C8_KnownCountUsed ==
    FromPlan =>
        LET rec == PlanLimits.recommended_images
            d == Val(duration_sec)
            den == RateDen * DurScale
        IN  /\ estimated_iframes_arg # None =>
                LET k == Val(estimated_iframes_arg)
                IN  /\ (PlanStrategy.mode = "all_iframes") <=> (k <= rec)
                    /\ PlanStrategy.mode = "all_iframes"
                           => PlanStrategy.estimated_frames = k
            /\ estimated_iframes_arg = None =>
                /\ (PlanStrategy.mode = "all_iframes")
                       <=> (d * RateNum < (rec + 1) * den)
                /\ PlanStrategy.mode = "all_iframes" =>
                       LET n == PlanStrategy.estimated_frames
                       IN  n * den <= d * RateNum /\ d * RateNum < (n + 1) * den

\* C8 witness: a known count of 0 for a video whose duration-based estimate
\* is above recommended_images
C8_Witness ==
    /\ pc = "planned"
    /\ estimated_iframes_arg = Some(0)
    /\ estimate_iframes(Val(duration_sec)) > PlanLimits.recommended_images
    /\ PlanStrategy.mode = "all_iframes"
    /\ PlanStrategy.estimated_frames = 0

\* C9: estimate_iframes returns floor(duration * rate), floor(duration / 3)
\* with the default rate, never a negative number, and 0 for duration 0.
C9_EstimateIsFloor ==
    pc = "estimated" =>
        LET n == Val(iframes_result)
            d == Val(duration_sec)
        IN  /\ n \in Nat
            /\ n * RateDen * DurScale <= d * RateNum
            /\ d * RateNum < (n + 1) * RateDen * DurScale
            /\ n * 3 * DurScale <= d
            /\ d < (n + 1) * 3 * DurScale
            /\ d = 0 => n = 0

\* C9 witness: 10 s gives 3
C9_Witness ==
    /\ pc = "estimated"
    /\ duration_sec = Some(10 * DurScale)
    /\ iframes_result = Some(3)

\* C10: validate_strategy classifies a strategy by its estimated_frames c
\* into exactly one of: invalid when c > max_images; valid with a warning
\* when recommended_images < c <= max_images; valid with the normal-range
\* message when c <= recommended_images.
C10_ValidateClassifies ==
    pc = "validated" =>
        LET c == Val(current_strategy).estimated_frames
            v == Val(validation)
            kind == v.message[1]
        IN  /\ c > PlanLimits.max_images
                => (v.ok = FALSE /\ kind = "exceeds_max")
            /\ (PlanLimits.recommended_images < c /\ c <= PlanLimits.max_images)
                => (v.ok = TRUE /\ kind = "exceeds_recommended")
            /\ c <= PlanLimits.recommended_images
                => (v.ok = TRUE /\ kind = "normal_range")
            /\ kind \in {"exceeds_max", "exceeds_recommended", "normal_range"}

\* C10 witness: 250 frames against gemini (200 recommended, 3600 maximum)
C10_Witness ==
    /\ pc = "validated"
    /\ strategy_origin = "hand_built"
    /\ provider_arg = Some("gemini")
    /\ Val(current_strategy).estimated_frames = 250
    /\ Val(validation).ok = TRUE
    /\ Val(validation).message[1] = "exceeds_recommended"

\* C11: validate_strategy never raises, also for a hand-built strategy above
\* the hard limit: every call returns an (ok, message) value, ok = False
\* above max_images, and leaves the strategy and the provider limits as they
\* were.
C11_ValidateReturnsAndPreserves ==
    [][(pc \in {"planned", "selected", "hand_built"} /\ pc' # pc) =>
          /\ pc' = "validated"
          /\ validation' # None
          /\ Val(validation').ok \in BOOLEAN
          /\ Val(validation').message # <<>>
          /\ (Val(current_strategy).estimated_frames > PlanLimits.max_images)
                 => (Val(validation').ok = FALSE)
          /\ current_strategy' = current_strategy
          /\ provider_limits' = provider_limits]_vars

\* C11 witness: a hand-built strategy of 5000 frames against gemini is
\* reported invalid, the message citing the 3600 ceiling
C11_Witness ==
    /\ pc = "validated"
    /\ strategy_origin = "hand_built"
    /\ provider_arg = Some("gemini")
    /\ Val(current_strategy).estimated_frames = 5000
    /\ Val(validation).ok = FALSE
    /\ Val(validation).message = <<"exceeds_max", 5000, 3600>>

\* C18: every entry of the provider limits table has
\* 0 < recommended_images <= max_images and tokens_per_image > 0, in every
\* reachable state: the table stays as the class body set it.
C18_LimitsTableValid ==
    /\ DOMAIN provider_limits = AIProvider
    /\ \A p \in AIProvider :
        /\ 0 < provider_limits[p].recommended_images
        /\ provider_limits[p].recommended_images <= provider_limits[p].max_images
        /\ provider_limits[p].tokens_per_image > 0
    /\ provider_limits["claude"].max_images = 100
    /\ provider_limits["claude"].recommended_images = 80
    /\ provider_limits["claude"].tokens_per_image = 1500
    /\ provider_limits["gemini"].max_images = 3600
    /\ provider_limits["gemini"].recommended_images = 200
    /\ provider_limits["gemini"].tokens_per_image = 258

\* C18 witness: the table after a planning call and a validation have run
C18_Witness ==
    /\ pc = "validated"
    /\ strategy_origin = "plan"
    /\ provider_limits["claude"].recommended_images = 80
    /\ provider_limits["gemini"].max_images = 3600

\* get_preset_strategies has returned and the caller holds its menu
MenuReturned == pc \in {"presets", "selected"}

MenuNames == {strategies[i].name : i \in 1..Len(strategies)}

MenuEntry(name) ==
    strategies[CHOOSE i \in 1..Len(strategies) : strategies[i].name = name]

\* the seconds of the fixed-interval presets
FixedSeconds ==
    [n \in {"detailed_2s", "standard_5s", "brief_10s"} |->
        IF n = "detailed_2s" THEN 2 ELSE IF n = "standard_5s" THEN 5 ELSE 10]

\* C12: in the menu of get_preset_strategies the 2-second preset is present
\* iff duration >= 4 s, the 5-second preset iff duration >= 10 s, the
\* 10-second preset iff duration >= 20 s, the all-keyframes preset iff the
\* estimated keyframe count is <= max_images, and auto always.
C12_PresetPresence ==
    MenuReturned =>
        LET d == Val(duration_sec)
        IN  /\ ("detailed_2s" \in MenuNames) <=> (d >= 4 * DurScale)
            /\ ("standard_5s" \in MenuNames) <=> (d >= 10 * DurScale)
            /\ ("brief_10s" \in MenuNames) <=> (d >= 20 * DurScale)
            /\ ("all_iframes" \in MenuNames)
                   <=> (d < (PlanLimits.max_images + 1) * 3 * DurScale)
            /\ "auto" \in MenuNames
            /\ Cardinality(MenuNames) = Len(strategies)

\* C12 witness: at 3 s only all keyframes and auto are offered
C12_Witness ==
    /\ pc = "presets"
    /\ duration_sec = Some(3 * DurScale)
    /\ MenuNames = {"all_iframes", "auto"}

PresetRank(name) ==
    CASE name = "detailed_2s" -> 1
      [] name = "standard_5s" -> 2
      [] name = "brief_10s" -> 3
      [] name = "all_iframes" -> 4
      [] name = "auto" -> 5

\* C13: the entries of the menu iterate in the order detailed, standard,
\* brief, all keyframes, auto, restricted to the entries present; auto is
\* always the last entry.
C13_PresetOrder ==
    MenuReturned =>
        /\ \A i, j \in 1..Len(strategies) :
               i < j => PresetRank(strategies[i].name)
                            < PresetRank(strategies[j].name)
        /\ Len(strategies) >= 1
        /\ strategies[Len(strategies)].name = "auto"

\* C13 witness: a menu of all five entries, in the order of the table
C13_Witness ==
    /\ pc = "presets"
    /\ [i \in 1..Len(strategies) |-> strategies[i].name]
           = <<"detailed_2s", "standard_5s", "brief_10s", "all_iframes", "auto">>

\* C14: the auto entry of get_preset_strategies(duration, provider) equals
\* the strategy calculate_strategy(duration, provider) returns with no known
\* keyframe count: same mode, interval and estimated_frames.
C14_AutoEqualsPlan ==
    (pc = "planned" /\ strategies # <<>>) =>
        LET auto == MenuEntry("auto").strategy
            plan == Val(current_strategy)
        IN  /\ auto.mode = plan.mode
            /\ auto.interval = plan.interval
            /\ auto.estimated_frames = plan.estimated_frames

\* C14 witness: the menu and then the plan for one hour on claude, where
\* the plan differs from the one for gemini (30 s, not 20 s)
C14_Witness ==
    /\ pc = "planned"
    /\ strategies # <<>>
    /\ duration_sec = Some(3600 * DurScale)
    /\ provider_arg = Some("claude")
    /\ Val(current_strategy).mode = "interval"
    /\ MenuEntry("auto").strategy.interval = Val(current_strategy).interval

\* C15: each fixed-interval preset in the menu has estimated_frames =
\* floor(duration / its interval) (2, 5 or 10 s); the value is determined by
\* the duration alone, whatever the provider.
C15_FixedPresetFrames ==
    MenuReturned =>
        \A i \in 1..Len(strategies) :
            strategies[i].name \in DOMAIN FixedSeconds =>
                LET sec == FixedSeconds[strategies[i].name]
                    n == strategies[i].strategy.estimated_frames
                IN  /\ strategies[i].strategy.interval = Some(sec)
                    /\ n * sec * DurScale <= Val(duration_sec)
                    /\ Val(duration_sec) < (n + 1) * sec * DurScale

\* C15 witness: 25 s gives 12, 5 and 2 frames
C15_Witness ==
    /\ pc = "presets"
    /\ duration_sec = Some(25 * DurScale)
    /\ MenuEntry("detailed_2s").strategy.estimated_frames = 12
    /\ MenuEntry("standard_5s").strategy.estimated_frames = 5
    /\ MenuEntry("brief_10s").strategy.estimated_frames = 2

\* C16: every fixed-interval preset (2 s, 5 s, 10 s) in the menu has
\* estimated_frames >= 2.
C16_NoDegeneratePreset ==
    MenuReturned =>
        \A i \in 1..Len(strategies) :
            strategies[i].name \in DOMAIN FixedSeconds =>
                strategies[i].strategy.estimated_frames >= 2

\* C16 witness: at exactly 4 s the 2-second preset is offered with 2 frames
C16_Witness ==
    /\ pc = "presets"
    /\ duration_sec = Some(4 * DurScale)
    /\ "detailed_2s" \in MenuNames
    /\ MenuEntry("detailed_2s").strategy.estimated_frames = 2

\* C17: estimate_tokens(n, provider) is n * tokens_per_image of the
\* provider for every integer n, and estimate_tokens(2 * n, provider) is
\* 2 * estimate_tokens(n, provider).
C17_TokensLinear ==
    /\ pc \in {"tokens", "tokens_doubled"} =>
           Val(tokens_result)
               = Val(frame_count_arg)
                     * (IF provider_arg = Some("claude") THEN 1500 ELSE 258)
    /\ pc = "tokens_doubled" =>
           Val(tokens_doubled) = 2 * Val(tokens_result)

\* C17 witness: 100 frames on gemini cost 25800 tokens, 200 frames 51600
C17_Witness ==
    /\ pc = "tokens_doubled"
    /\ provider_arg = Some("gemini")
    /\ frame_count_arg = Some(100)
    /\ tokens_result = Some(25800)
    /\ tokens_doubled = Some(51600)

\* C19: the planner operations write no shared state, so under every
\* interleaving of calls from the threads each call returns what the same
\* call returns alone, whatever calls ran before it.
C19_CallsIndependent ==
    /\ provider_limits = PROVIDER_LIMITS
    /\ \A t \in Threads :
           t_pc[t] = "returned" =>
               /\ t_result[t] = seen[Val(t_call[t])]
               /\ t_result[t] = Some(RunCall(Val(t_call[t])))
    /\ seen[[op |-> "calculate_strategy", duration |-> 800 * DurScale,
             provider |-> "gemini", frames |-> 0]]
           \in {None,
                Some([mode |-> "interval", interval |-> Some(3),
                      estimated_frames |-> 266,
                      description |-> <<"interval", 3, 266>>])}
    /\ seen[[op |-> "validate_strategy", duration |-> 0,
             provider |-> "claude", frames |-> 250]]
           \in {None,
                Some([ok |-> FALSE, message |-> <<"exceeds_max", 250, 100>>])}

\* C19 witness: two threads have returned from the same calculate_strategy
\* call after other calls ran, one of them not the first to make it
C19_Witness ==
    /\ \A t \in {1, 2} : t_pc[t] = "returned"
    /\ t_call[1] = t_call[2]
    /\ Val(t_call[1]).op = "calculate_strategy"
    /\ Cardinality({c \in ThreadCalls : seen[c] # None}) >= 3

\* C20: an ExtractionStrategy is never modified after it is constructed:
\* validate_strategy, get_preset_strategies, the GUI handlers and the
\* analysis worker only read its fields or replace a reference, and every
\* strategy a planning call hands to the GUI is a newly constructed object.
C20_StrategyNeverModified ==
    [][/\ \A id \in (DOMAIN objects) \cap (DOMAIN objects') :
              objects'[id] = objects[id]
       /\ (gui_strategy' # gui_strategy /\ gui_strategy' # None)
              => /\ Val(gui_strategy') \notin DOMAIN objects
                 /\ Val(gui_strategy') \in DOMAIN objects'
       /\ (gui_strategy \cup worker_strategy) \subseteq DOMAIN objects]_vars

\* C20 witness: a worker has read the interval of its all-keyframes strategy
\* three times and the analysis is finished, while the GUI has since selected
\* another strategy object; the worker's object still has no interval
C20_Witness ==
    /\ worker_pc = "finished"
    /\ gui_validation # None
    /\ gui_strategy # worker_strategy
    /\ objects[Val(worker_strategy)].mode = "all_iframes"
    /\ objects[Val(worker_strategy)].interval = None
    /\ worker_interval = Some(None)

\* C21: calculate_strategy with duration 0 does not fail for any provider
\* (the provider is a key of the table and both divisors, recommended_images
\* and the chosen interval, are not 0): with no known keyframe count it
\* returns all_iframes with estimated_frames 0, and with a known count above
\* recommended_images it returns interval mode with interval 1 and
\* estimated_frames 0.
C21_ZeroDurationPlan ==
    (FromPlan /\ duration_sec = Some(0)) =>
        /\ Val(provider_arg) \in DOMAIN provider_limits
        /\ PlanLimits.recommended_images # 0
        /\ current_strategy # None
        /\ estimated_iframes_arg = None =>
               /\ PlanStrategy.mode = "all_iframes"
               /\ PlanStrategy.interval = None
               /\ PlanStrategy.estimated_frames = 0
        /\ (/\ estimated_iframes_arg # None
            /\ Val(estimated_iframes_arg) > PlanLimits.recommended_images) =>
               /\ PlanStrategy.mode = "interval"
               /\ PlanStrategy.interval = Some(1)
               /\ PlanStrategy.estimated_frames = 0

\* C21 witness: duration 0 on claude with a known count of 81 keyframes
C21_Witness ==
    /\ pc = "planned"
    /\ FromPlan
    /\ duration_sec = Some(0)
    /\ provider_arg = Some("claude")
    /\ estimated_iframes_arg = Some(81)
    /\ PlanStrategy.interval = Some(1)
    /\ PlanStrategy.estimated_frames = 0

\* the command-line call has returned
CliReturned == cli_pc = "returned"

\* C22: analyze_video called with interval = None, with all dependencies
\* installed and a readable video, computes the interval through
\* calculate_strategy and goes on to frame extraction with it; the automatic
\* calculation never makes the call return an error.
C22_AutoIntervalProceeds ==
    (/\ CliReturned
     /\ Val(cli_args).interval = None
     /\ cli_failed_at \notin {"dependencies", "get_video_info"}) =>
        /\ cli_failed_at # "auto_interval"
        /\ cli_cache_created
        /\ cli_filter # ""

\* C23: analyze_video called with cleanup_cache = True leaves no frame cache
\* directory behind when it returns, on every path after the directory was
\* created: success, an AI result with success = False, and an exception
\* during extraction or analysis.
C23_CacheCleanedOnEveryPath ==
    (/\ CliReturned
     /\ Val(cli_args).cleanup_cache
     /\ cli_cache_created) =>
        ~cli_cache_exists

\* the kinds of the signals in a sequence of signals
SignalKinds(signals) == [i \in 1..Len(signals) |-> signals[i].sig]

\* how often a signal of kind sig occurs in a sequence of signals
SignalCount(signals, sig) ==
    Cardinality({i \in 1..Len(signals) : signals[i].sig = sig})

\* run() of the current analysis worker is over
AwRunOver == aw_pc \in {"emitted", "exited"}

\* C24: for every strategy the window takes from calculate_strategy or
\* get_preset_strategies and hands to the analysis worker, extract_frames
\* samples at the fixed interval (fps filter) if and only if the mode is
\* interval and selects all keyframes if and only if the mode is
\* all_iframes, though it decides from the interval value alone; the prompt
\* describes the sampling the same way.
C24_ExtractionFollowsMode ==
    aw_filter # "" =>
        LET st == Val(aw_strategy)
        IN  /\ st.mode \in {"interval", "all_iframes"}
            /\ (aw_filter = "fps") <=> (st.mode = "interval")
            /\ (aw_filter = "select_iframes") <=> (st.mode = "all_iframes")
            /\ aw_prompt # "" =>
                   ((aw_prompt = "interval") <=> (st.mode = "interval"))

\* C24 witness: the worker has extracted and built the prompt for the
\* 5-second preset of the 800 s video, sampling at the fixed interval
C24_Witness ==
    /\ aw_pc = "prompted"
    /\ aw_video_path = Some("a.mp4")
    /\ Val(aw_strategy).mode = "interval"
    /\ Val(aw_strategy).interval = Some(5)
    /\ aw_filter = "fps"
    /\ aw_prompt = "interval"

\* C25: whenever the window starts an analysis with a strategy whose
\* estimated_frames exceeds the provider's recommended_images or max_images,
\* validate_strategy has been called on that strategy and its message shown
\* to the user before the analysis starts.
C25_ValidateShownBeforeStart ==
    (/\ aw_pc # "none"
     /\ Val(aw_strategy).estimated_frames
            > provider_limits[GuiProvider].recommended_images) =>
        Val(aw_strategy) \in mw_validated

\* C26: every run of the analysis worker emits exactly one terminal signal,
\* finished or error and never both, as its last signal, and
\* ai_analysis_finished exactly once before it, whichever step raises or
\* succeeds; the elapsed timer is active only between the delivery of
\* ai_analysis_started and that of ai_analysis_finished, so it is stopped
\* once the signals of the run are delivered.
C26_OneTerminalSignal ==
    LET n == Len(aw_emitted)
        terminals == SignalCount(aw_emitted, "finished")
                         + SignalCount(aw_emitted, "error")
        ai_finished == SignalCount(aw_emitted, "ai_analysis_finished")
    IN  /\ terminals <= 1
        /\ ai_finished <= 1
        /\ ~AwRunOver => terminals = 0
        /\ AwRunOver =>
               /\ terminals = 1
               /\ aw_emitted[n].sig \in {"finished", "error"}
               /\ ai_finished = 1
               /\ aw_emitted[n - 1].sig = "ai_analysis_finished"
        /\ mw_timer_active =>
               /\ SignalCount(aw_emitted, "ai_analysis_started") = 1
               /\ \/ aw_pc = "analyzing"
                  \/ SignalCount(mw_queue, "ai_analysis_finished") = 1
        /\ (AwRunOver /\ mw_queue = <<>>) => ~mw_timer_active

\* C26 witness: connector.analyze raised after the timer was started; the
\* run emitted ai_analysis_started, ai_analysis_finished, error, all are
\* delivered and the timer is stopped
C26_Witness ==
    /\ aw_pc = "exited"
    /\ SignalKinds(aw_emitted)
           = <<"ai_analysis_started", "ai_analysis_finished", "error">>
    /\ mw_queue = <<>>
    /\ ~mw_timer_active

\* the state of the window and of the workers other than the message box
GuiStateButMessage ==
    <<mw_video_path, mw_strategy, mw_analyze_enabled, mw_browse_enabled,
      mw_youtube_enabled, mw_timer_active, mw_last_finish, mw_queue,
      mw_validated, awVars, dw_pc>>

\* C27: at most one analysis worker and at most one download worker run at
\* any time: a click on analyze while an analysis worker runs, or on
\* download while a download worker runs, starts no worker and changes no
\* state of a worker or of the window (it only shows a message box), and a
\* new worker is created only while the previous one of its kind is not
\* running.
C27_OneWorkerAtATime ==
    [][/\ (AnalyzeClicked /\ AwRunning) => UNCHANGED GuiStateButMessage
       /\ (DownloadClicked /\ DwRunning) => UNCHANGED GuiStateButMessage
       /\ (aw_pc' = "started" /\ awVars' # awVars) => ~AwRunning
       /\ (dw_pc' = "running" /\ dw_pc # "running") => ~DwRunning]_vars

\* C27 witness: the analyze button was enabled again by a file loaded
\* during the analysis, and a click on it while the worker runs was
\* answered with the message box only
C27_Witness ==
    /\ AwRunning
    /\ mw_analyze_enabled
    /\ mw_message = "analysis_running"
    /\ aw_video_path # mw_video_path

\* C28: when an analysis finishes successfully, the record saved to the
\* history and the frame cache that is cleaned belong to the video the
\* worker analysed, whatever videos were loaded while the worker ran.
C28_FinishUsesAnalysedVideo ==
    mw_last_finish # None =>
        LET f == Val(mw_last_finish)
        IN  /\ f.saved # None => Val(f.saved) = f.analysed
            /\ f.cleaned = Some(f.analysed)

\* C30: the analyze button is enabled if and only if a video is loaded and
\* neither an analysis worker nor a download worker is running.
C30_AnalyzeEnabledIff ==
    mw_analyze_enabled
        <=> (mw_video_path # None /\ ~AwRunning /\ ~DwRunning)

\* C29: write_video_metadata without an output path never loses the video:
\* when it has returned and a video was at video_path when it was called, a
\* file is at video_path, and after a failure that file is the unmodified
\* original and no file this call wrote is left at temp_path.
C29_VideoNeverLost ==
    (/\ wm_pc = "returned"
     /\ Val(wm_args).output_path = None
     /\ Val(wm_args).existed)
        => /\ wm_original # ""
           /\ ~Val(wm_return).ok
                => /\ wm_original = "original"
                   /\ wm_temp \notin {"partial", "tagged"}

====
